---- MODULE Spec2Model ----
(***************************************************************************)
(* A model of the conversation gateway.                                    *)
(*                                                                         *)
(* Two applications live in the repository:                                *)
(*   - chatbot/backend : ChatService over an injected dictionary of        *)
(*     Conversation objects, one LLM (BaseLLM), blocking and streaming     *)
(*     chat, a process-wide system prompt;                                 *)
(*   - backend         : an earlier ChatService with per-conversation      *)
(*     model binding, update_conversation and the LLMService registry.     *)
(*                                                                         *)
(* Text is a sequence of one-character strings, so that slicing, length    *)
(* and concatenation are computed and not assumed.  A Python object is an  *)
(* index into a heap; a dictionary is the sequence of its (key, object)    *)
(* entries in insertion order.  A coroutine is a record with a position    *)
(* (pc); the code between two awaits is one atomic action (asyncio runs    *)
(* one task at a time).                                                    *)
(***************************************************************************)
EXTENDS Integers, Sequences, FiniteSets, TLC

\* ------------------------------------------------------------- bounds
MaxOps   == 3      \* operations the clients start (create, delete, set prompt, chat, stream)
MaxReqs  == 2      \* chat requests among them
MaxClock == 1      \* largest reading of the clock
MaxFrags == 3      \* fragments one adapter stream yields at most
MaxTextless == 1   \* chunks without text one provider stream holds at most

\* ------------------------------------------------------------- text
Str(c, n) == [i \in 1..n |-> c]

\* Python's None for an Optional[str]; no text equals it (texts hold single characters)
None == <<"None">>

\* Python truthiness of an Optional[str]: None and "" are falsy
Truthy(s) == s /= None /\ s /= <<>>

\* s[:n]
Prefix(s, n) == SubSeq(s, 1, IF Len(s) < n THEN Len(s) ELSE n)

IsPrefixOf(s, t) == Len(s) <= Len(t) /\ SubSeq(t, 1, Len(s)) = s

Ellipsis == <<".", ".", ".">>

\* the character bound of the derived title
TitleLimit == 30

\* (mutation) the ellipsis already at the bound
DeriveTitle_AtBound(content) ==
  Prefix(content, TitleLimit) \o (IF Len(content) >= TitleLimit THEN Ellipsis ELSE <<>>)

\* user_message.content[:30] + ("..." if len(user_message.content) > 30 else "")
DeriveTitle(content) ==
  Prefix(content, TitleLimit) \o (IF Len(content) > TitleLimit THEN Ellipsis ELSE <<>>)

\* ------------------------------------------------------------- inputs
UserMsgs == {Str("a", TitleLimit), Str("b", TitleLimit + 1)}
Replies  == {<<"o", "k">>}
\* what the adapter's stream yields, fragment by fragment (it may end or fail after
\* any of them); GeminiLLM.generate_stream yields no empty fragment
Script   == <<(<<"H", "e", "l", "l", "o">>), (<<",", " ">>), (<<"w", "o", "r", "l", "d">>)>>
FragAt(k) == Script[((k - 1) % Len(Script)) + 1]
\* the bodies of POST /conversations and of POST /system-prompt
CreateInputs == {[title |-> None, system_prompt |-> None],
                 [title |-> <<"T">>, system_prompt |-> <<"S">>]}
Prompts  == {<<"P">>, <<>>}

\* settings.DEFAULT_SYSTEM_PROMPT
DEFAULT_SYSTEM_PROMPT == <<"D">>

NoId == 0
ConvIds == 1..MaxOps

\* ------------------------------------------------------------- state
VARIABLES
  clock,            \* what datetime.now() returns
  heap,             \* the Conversation objects, by allocation order
  conversations,    \* dependencies._conversations: entries [key, obj] in insertion order
  system_prompt,    \* dependencies._system_prompt
  reqs,             \* the chat requests started so far, each with its position
  last,             \* the last response of a route that is not a chat route
  ops,              \* how many operations the clients have started
  Bheap,            \* backend: the Conversation objects, by allocation order
  Bconversations,   \* backend: ChatService.conversations, entries [key, obj], keys are str(id)
  Blast,            \* backend: the last response (status, model used)
  adapters,         \* backend: LLMService.adapters, provider key -> adapter
  model_id,         \* backend: the model id generate_response is called with
  resolved          \* backend: the adapter generate_response picked, or its error

chatVars    == <<heap, conversations, system_prompt, reqs, last>>
backendVars == <<Bheap, Bconversations, Blast>>
resolveVars == <<adapters, model_id, resolved>>
vars == <<clock, heap, conversations, system_prompt, reqs, last, ops,
          Bheap, Bconversations, Blast, adapters, model_id, resolved>>

\* ------------------------------------------------------------- dict
DictKeys(d) == {d[i].key : i \in DOMAIN d}
DictHas(d, k) == k \in DictKeys(d)
DictGet(d, k) == d[CHOOSE i \in DOMAIN d : d[i].key = k].obj
\* d[k] = o : an existing key keeps its place, a new key goes last
DictSet(d, k, o) ==
  IF DictHas(d, k)
  THEN [i \in DOMAIN d |-> IF d[i].key = k THEN [key |-> k, obj |-> o] ELSE d[i]]
  ELSE Append(d, [key |-> k, obj |-> o])
\* del d[k]
DictDel(d, k) == SelectSeq(d, LAMBDA e : e.key /= k)
DictValues(d) == [i \in DOMAIN d |-> d[i].obj]


\* ------------------------------------------------------------- backend: LLMService
\* LLMService.adapters as the code builds it: only "google" is registered
Registry == [k \in {<<"g", "o", "o", "g", "l", "e">>} |-> "GeminiAdapter"]

\* the ids of LLMService.models, in order
Catalog == <<<<"g", "p", "t", "-", "3", ".", "5", "-", "t", "u", "r", "b", "o">>,
            <<"g", "p", "t", "-", "4">>,
            <<"g", "p", "t", "-", "4", "-", "t", "u", "r", "b", "o">>,
            <<"g", "e", "m", "i", "n", "i", "-", "p", "r", "o">>,
            <<"d", "e", "e", "p", "s", "e", "e", "k", "-", "c", "h", "a", "t">>,
            <<"q", "w", "e", "n", "-", "t", "u", "r", "b", "o">>,
            <<"q", "w", "e", "n", "-", "p", "l", "u", "s">>,
            <<"c", "l", "a", "u", "d", "e", "-", "2">>,
            <<"c", "l", "a", "u", "d", "e", "-", "i", "n", "s", "t", "a", "n", "t">>>>

\* model_id.split("-")[0]: the characters before the first "-"
RECURSIVE LeadingToken(_)
LeadingToken(s) ==
  IF s = <<>> \/ Head(s) = "-" THEN <<>> ELSE <<Head(s)>> \o LeadingToken(Tail(s))

UnsupportedModel == "ValueError"

\* (mutation) a lookup by the whole model id
ResolveAdapter_WholeId(reg, id) ==
  IF id \in DOMAIN reg THEN reg[id] ELSE UnsupportedModel

\* LLMService.generate_response: adapters.get(model_id.split("-")[0]), ValueError without one
ResolveAdapter(reg, id) ==
  IF LeadingToken(id) \in DOMAIN reg THEN reg[LeadingToken(id)] ELSE UnsupportedModel

\* registries and model ids the resolution is tried on
Registries == {Registry,
               [k \in {<<"a", "c", "m", "e">>} |-> "AcmeAdapter"],
               [k \in {<<"a", "c", "m", "e">>, <<"g", "o", "o", "g", "l", "e">>} |-> IF k = <<"a", "c", "m", "e">> THEN "AcmeAdapter" ELSE "GeminiAdapter"],
               [k \in {} |-> "none"]}
ModelIds == {Catalog[i] : i \in DOMAIN Catalog} \cup {<<"g", "o", "o", "g", "l", "e", "-", "x">>, <<"g", "o", "o", "g", "l", "e">>, <<"a", "c", "m", "e", "-", "l", "a", "r", "g", "e", "-", "v", "2">>, <<"u", "n", "k", "n", "o", "w", "n", "-", "x">>, <<"-", "x">>, <<>>}

\* one call of generate_response
Resolve ==
  /\ resolved = "pending"
  /\ resolved' = ResolveAdapter(adapters, model_id)
  /\ UNCHANGED <<clock, ops, chatVars, backendVars, adapters, model_id>>

\* the next call, with another model id
NextCall ==
  /\ resolved /= "pending"
  /\ \E id \in ModelIds : model_id' = id
  /\ resolved' = "pending"
  /\ UNCHANGED <<clock, ops, chatVars, backendVars, adapters>>

InitResolve ==
  /\ clock = 0 /\ heap = <<>> /\ conversations = <<>> /\ system_prompt = None
  /\ reqs = <<>> /\ ops = 0 /\ last = [op |-> "none", seq |-> 0, status |-> 0]
  /\ Bheap = <<>> /\ Bconversations = <<>> /\ Blast = [op |-> "none", status |-> 0]
  /\ adapters \in Registries
  /\ model_id \in ModelIds
  /\ resolved = "pending"

NextResolve == Resolve \/ NextCall

SpecResolve == InitResolve /\ [][NextResolve]_vars

\* ------------------------------------------------------------- Conversation
\* Conversation(title=..., system_prompt=...): id from uuid4, no messages,
\* created_at then updated_at each read from the clock (t1 before t2)
NewConversation(id, title, sp, t1, t2) ==
  [id |-> id, title |-> title, system_prompt |-> sp, messages |-> <<>>,
   created_at |-> t1, updated_at |-> t2]

\* (mutation) an identifier taken from the number of objects, used twice
FreshId_Count(h) == IF Len(h) = 0 THEN 1 ELSE Len(h)

\* uuid4(): an identifier no object was ever given (objects are numbered as allocated)
FreshId(h) == Len(h) + 1

\* Message(role, content); req names the request that appended it (history only)
Message(role, content, r) == [role |-> role, content |-> content, req |-> r]

\* (mutation) appending the user message refreshes updated_at as well
AppendUser_Touch(conv, content, r) ==
  [conv EXCEPT !.messages = Append(@, Message("user", content, r)), !.updated_at = clock]

\* conversation.messages.append(Message(role="user", content=request.message))
AppendUser(conv, content, r) ==
  [conv EXCEPT !.messages = Append(@, Message("user", content, r))]

\* (mutation) a history in the opposite order
BuildHistory_Reversed(conv) ==
  [i \in 1..(Len(conv.messages) - 1) |->
     [role |-> conv.messages[Len(conv.messages) - i].role,
      content |-> conv.messages[Len(conv.messages) - i].content]]

\* (mutation) a history that keeps the message just appended
BuildHistory_All(conv) ==
  [i \in 1..Len(conv.messages) |->
     [role |-> conv.messages[i].role, content |-> conv.messages[i].content]]

\* [{"role": m.role, "content": m.content} for m in conversation.messages[:-1]]
BuildHistory(conv) ==
  [i \in 1..(Len(conv.messages) - 1) |->
     [role |-> conv.messages[i].role, content |-> conv.messages[i].content]]

\* (mutation) the default prompt whatever the conversation holds
EffectivePrompt_Default(conv, default) == default

\* conversation.system_prompt or default_system_prompt
EffectivePrompt(conv, default) ==
  IF Truthy(conv.system_prompt) THEN conv.system_prompt ELSE default

\* (mutation) a commit that writes back the request's own copy of the messages:
\* what was there up to its user message, and its assistant message
CommitAssistant_PrivateCopy(conv, user_content, text, now, r) ==
  LET mine == {i \in DOMAIN conv.messages : conv.messages[i].req = r}
      upto == IF mine = {} THEN Len(conv.messages)
              ELSE CHOOSE i \in mine : \A j \in mine : j <= i
      c1   == [conv EXCEPT !.messages = Append(SubSeq(@, 1, upto), Message("assistant", text, r)),
                           !.updated_at = now]
  IN IF ~Truthy(c1.title) /\ Len(c1.messages) = 2
     THEN [c1 EXCEPT !.title = DeriveTitle(user_content)]
     ELSE c1

\* (mutation) a commit that derives the title of any untitled conversation
CommitAssistant_AnyUntitled(conv, user_content, text, now, r) ==
  LET c1 == [conv EXCEPT !.messages = Append(@, Message("assistant", text, r)),
                         !.updated_at = now]
  IN IF ~Truthy(c1.title)
     THEN [c1 EXCEPT !.title = DeriveTitle(user_content)]
     ELSE c1

\* (mutation) a commit that puts the assistant message first
CommitAssistant_Front(conv, user_content, text, now, r) ==
  LET c1 == [conv EXCEPT !.messages = <<Message("assistant", text, r)>> \o @,
                         !.updated_at = now]
  IN IF ~Truthy(c1.title) /\ Len(c1.messages) = 2
     THEN [c1 EXCEPT !.title = DeriveTitle(user_content)]
     ELSE c1

\* (mutation) a commit that does not refresh updated_at
CommitAssistant_Stale(conv, user_content, text, now, r) ==
  LET c1 == [conv EXCEPT !.messages = Append(@, Message("assistant", text, r))]
  IN IF ~Truthy(c1.title) /\ Len(c1.messages) = 2
     THEN [c1 EXCEPT !.title = DeriveTitle(user_content)]
     ELSE c1

\* the commit: append the assistant message, refresh updated_at, derive the title
\* of an untitled conversation that now holds exactly two messages
CommitAssistant(conv, user_content, text, now, r) ==
  LET c1 == [conv EXCEPT !.messages = Append(@, Message("assistant", text, r)),
                         !.updated_at = now]
  IN IF ~Truthy(c1.title) /\ Len(c1.messages) = 2
     THEN [c1 EXCEPT !.title = DeriveTitle(user_content)]
     ELSE c1

\* dependencies.update_system_prompt: the new value of _system_prompt, also returned
update_system_prompt(new_prompt) == new_prompt

\* dependencies.get_system_prompt: _system_prompt or settings.DEFAULT_SYSTEM_PROMPT
get_system_prompt ==
  IF Truthy(system_prompt) THEN system_prompt ELSE DEFAULT_SYSTEM_PROMPT

\* ------------------------------------------------------------- store reads
NotFound == [status |-> 404]

\* ChatService.get_conversation: the object under the key, or 404
get_conversation(d, id) ==
  IF ~DictHas(d, id) THEN NotFound ELSE [status |-> 200, obj |-> DictGet(d, id)]

\* (mutation) a delete that answers 200 for a key that is not there
delete_conversation_Pop(d, id) ==
  IF ~DictHas(d, id)
  THEN [status |-> 200, conversations |-> d]
  ELSE [status |-> 200, conversations |-> DictDel(d, id)]

\* ChatService.delete_conversation: 404 and nothing removed, or the entry removed
delete_conversation(d, id) ==
  IF get_conversation(d, id).status = 404
  THEN [status |-> 404, conversations |-> d]
  ELSE [status |-> 200, conversations |-> DictDel(d, id)]

\* ------------------------------------------------------------- store list
\* list.sort(key=updated_at, reverse=True) is stable: o goes after every element
\* whose updated_at is not smaller
RECURSIVE InsertDesc(_, _, _)
InsertDesc(h, sorted, o) ==
  IF sorted = <<>> THEN <<o>>
  ELSE IF h[Head(sorted)].updated_at >= h[o].updated_at
       THEN <<Head(sorted)>> \o InsertDesc(h, Tail(sorted), o)
       ELSE <<o>> \o sorted

RECURSIVE SortDesc(_, _)
SortDesc(h, objs) ==
  IF objs = <<>> THEN <<>>
  ELSE InsertDesc(h, SortDesc(h, SubSeq(objs, 1, Len(objs) - 1)), objs[Len(objs)])

\* (mutation) s[offset:limit]
Slice_EndIsLimit(s, offset, limit) ==
  IF offset >= Len(s) \/ offset >= limit THEN <<>>
  ELSE SubSeq(s, offset + 1, IF limit > Len(s) THEN Len(s) ELSE limit)

\* s[offset:offset + limit], for offset >= 0 and limit >= 1
Slice(s, offset, limit) ==
  IF offset >= Len(s) THEN <<>>
  ELSE SubSeq(s, offset + 1, IF offset + limit > Len(s) THEN Len(s) ELSE offset + limit)

\* ConversationResponse(...) of one conversation
Summary(conv) ==
  [id |-> conv.id, title |-> conv.title, created_at |-> conv.created_at,
   updated_at |-> conv.updated_at, message_count |-> Len(conv.messages)]

\* ChatService.get_all_conversations
get_all_conversations(d, h, limit, offset) ==
  LET paginated == Slice(SortDesc(h, DictValues(d)), offset, limit)
  IN [i \in DOMAIN paginated |-> Summary(h[paginated[i]])]

\* ------------------------------------------------------------- GeminiLLM
\* the text "System: " that _prepare_contents puts before the system prompt
SystemPrefix == <<"S", "y", "s", "t", "e", "m", ":", " ">>

\* GeminiLLM._prepare_contents: the system prompt as a first user turn when it
\* is truthy, the history with every role other than "user" turned into
\* "model", then the current message as a user turn
prepare_contents(message, conversation_history, sys) ==
  (IF Truthy(sys) THEN <<[role |-> "user", text |-> SystemPrefix \o sys]>> ELSE <<>>)
  \o [i \in 1..Len(conversation_history) |->
        [role |-> IF conversation_history[i].role = "user" THEN "user" ELSE "model",
         text |-> conversation_history[i].content]]
  \o <<[role |-> "user", text |-> message]>>

\* what generate_response and generate_stream hand to the provider: a chat
\* started with history=[] and, as the message sent on it, the text of
\* contents[-1]
ProviderInput(message, conversation_history, sys) ==
  LET contents == prepare_contents(message, conversation_history, sys)
      last_message == contents[Len(contents)].text
  IN <<>> \o <<[role |-> "user", text |-> last_message]>>

\* ------------------------------------------------------------- requests
\* the status of the EventSourceResponse the streaming route returns, before
\* its generator has run
StreamStatus == 200

Request(kind, cid, o, created, msg, hist, sys, pc, status, pre) ==
  [kind |-> kind, cid |-> cid, conv |-> o, created |-> created, message |-> msg,
   history |-> hist, sys |-> sys, pc |-> pc, status |-> status,
   reply |-> None, resp_id |-> NoId, full_response |-> <<>>, events |-> <<>>,
   yielded |-> <<>>, textless |-> 0, pre |-> pre, commit_at |-> 0, retry_of |-> 0,
   invoked |-> IF o = 0 THEN 0 ELSE 1]

NoPre == [len |-> 0, updated_at |-> 0]

\* the failed request on conversation object o that carried the same message
\* (0 when there is none): a request that repeats it is a retry of that one
RetryOf(o, msg) ==
  LET failed == {q \in DOMAIN reqs : /\ reqs[q].conv = o /\ reqs[q].message = msg
                                      /\ reqs[q].pc = "failed"}
  IN IF failed = {} THEN 0 ELSE CHOOSE q \in failed : \A p \in failed : p <= q

\* the code of process_message / stream_message up to the adapter call:
\* resolve or create the conversation, append the user message, build the history
Begin(kind, cid, msg) ==
  /\ Len(reqs) < MaxReqs
  /\ ops < MaxOps
  /\ ops' = ops + 1
  /\ LET r == Len(reqs) + 1
         default == get_system_prompt
     IN IF cid /= NoId
        THEN LET got == get_conversation(conversations, cid)
             IN IF got.status = 404
                THEN /\ reqs' = Append(reqs, Request(kind, cid, 0, FALSE, msg, <<>>, None,
                                                      "notfound",
                                                      IF kind = "chat" THEN 404 ELSE StreamStatus, NoPre))
                     /\ UNCHANGED <<clock, heap, conversations, system_prompt, last, backendVars, resolveVars>>
                ELSE LET o == got.obj
                         c1 == AppendUser(heap[o], msg, r)
                     IN /\ heap' = [heap EXCEPT ![o] = c1]
                        /\ reqs' = Append(reqs,
                               [Request(kind, cid, o, FALSE, msg, BuildHistory(c1),
                                        EffectivePrompt(c1, default),
                                        IF kind = "chat" THEN "invoke" ELSE "streaming",
                                        IF kind = "chat" THEN 0 ELSE StreamStatus,
                                        [len |-> Len(heap[o].messages),
                                         updated_at |-> heap[o].updated_at])
                                  EXCEPT !.retry_of = RetryOf(o, msg)])
                        /\ UNCHANGED <<clock, conversations, system_prompt, last, backendVars, resolveVars>>
        ELSE \E t2 \in {clock, IF clock < MaxClock THEN clock + 1 ELSE clock} :
                  LET id == FreshId(heap)
                      o  == Len(heap) + 1
                      c0 == NewConversation(id, None, default, clock, t2)
                      c1 == AppendUser(c0, msg, r)
                  IN /\ heap' = Append(heap, c1)
                     /\ conversations' = DictSet(conversations, c0.id, o)
                     /\ clock' = t2
                     /\ reqs' = Append(reqs,
                            Request(kind, cid, o, TRUE, msg, BuildHistory(c1),
                                    EffectivePrompt(c1, default),
                                    IF kind = "chat" THEN "invoke" ELSE "streaming",
                                       IF kind = "chat" THEN 0 ELSE StreamStatus,
                                    [len |-> 0, updated_at |-> t2]))
                     /\ UNCHANGED <<system_prompt, last, backendVars, resolveVars>>

\* POST /chat, up to "await self.llm.generate_response(...)"
ChatBegin(cid, msg) == Begin("chat", cid, msg)

\* the adapter returns text: commit, write back, answer 200
ChatReturn(r, text) ==
  /\ reqs[r].kind = "chat" /\ reqs[r].pc = "invoke"
  /\ LET o  == reqs[r].conv
         c1 == CommitAssistant(heap[o], reqs[r].message, text, clock, r)
     IN /\ heap' = [heap EXCEPT ![o] = c1]
        /\ conversations' = DictSet(conversations, c1.id, o)
        /\ reqs' = [reqs EXCEPT ![r].pc = "done", ![r].status = 200, ![r].reply = text,
                                ![r].resp_id = c1.id, ![r].commit_at = clock]
  /\ UNCHANGED <<clock, system_prompt, ops, last, backendVars, resolveVars>>

\* (mutation) a failure whose answer names the conversation
ChatRaise_WithId(r) ==
  /\ reqs[r].kind = "chat" /\ reqs[r].pc = "invoke"
  /\ reqs' = [reqs EXCEPT ![r].pc = "failed", ![r].status = 500,
                          ![r].resp_id = heap[reqs[r].conv].id]
  /\ UNCHANGED <<clock, heap, conversations, system_prompt, ops, last, backendVars, resolveVars>>

\* (mutation) a failure after which the adapter is called again, every time
ChatRaise_RetryForever(r) ==
  /\ reqs[r].kind = "chat" /\ reqs[r].pc = "invoke"
  /\ reqs' = [reqs EXCEPT ![r].invoked = (@ % 2) + 1]
  /\ UNCHANGED <<clock, heap, conversations, system_prompt, ops, last, backendVars, resolveVars>>

\* (mutation) a failure after which the adapter is called again
ChatRaise_Retry(r) ==
  /\ reqs[r].kind = "chat" /\ reqs[r].pc = "invoke"
  /\ reqs' = [reqs EXCEPT ![r].pc = IF reqs[r].invoked < 2 THEN "invoke" ELSE "failed",
                          ![r].status = IF reqs[r].invoked < 2 THEN 0 ELSE 500,
                          ![r].invoked = IF reqs[r].invoked < 2 THEN @ + 1 ELSE @]
  /\ UNCHANGED <<clock, heap, conversations, system_prompt, ops, last, backendVars, resolveVars>>

\* (mutation) a failure that takes the last message back
ChatRaise_Rollback(r) ==
  /\ reqs[r].kind = "chat" /\ reqs[r].pc = "invoke"
  /\ heap' = [heap EXCEPT ![reqs[r].conv].messages = SubSeq(@, 1, Len(@) - 1)]
  /\ reqs' = [reqs EXCEPT ![r].pc = "failed", ![r].status = 500]
  /\ UNCHANGED <<clock, conversations, system_prompt, ops, last, backendVars, resolveVars>>

\* the adapter raises: the route turns it into a 500, nothing is committed
ChatRaise(r) ==
  /\ reqs[r].kind = "chat" /\ reqs[r].pc = "invoke"
  /\ reqs' = [reqs EXCEPT ![r].pc = "failed", ![r].status = 500]
  /\ UNCHANGED <<clock, heap, conversations, system_prompt, ops, last, backendVars, resolveVars>>

\* POST /chat/stream, up to the first "async for chunk in self.llm.generate_stream(...)"
StreamBegin(cid, msg) == Begin("stream", cid, msg)

NumContent(evs) == Cardinality({i \in DOMAIN evs : evs[i].event = "message"})

\* (mutation) an accumulator that puts the new fragment in front
Accumulate_Front(full_response, chunk) == chunk \o full_response

\* full_response += chunk
Accumulate(full_response, chunk) == full_response \o chunk

\* the adapter yields a fragment: accumulate it, forward it as a "message" event
StreamChunk(r) ==
  /\ reqs[r].kind = "stream" /\ reqs[r].pc = "streaming"
  /\ Len(reqs[r].yielded) < MaxFrags /\ reqs[r].textless = 0
  /\ LET f == FragAt(Len(reqs[r].yielded) + 1) IN
     reqs' = [reqs EXCEPT ![r].yielded = Append(@, f),
                          ![r].full_response = Accumulate(@, f),
                          ![r].events = Append(@, [event |-> "message", data |-> f])]
  /\ UNCHANGED <<clock, heap, conversations, system_prompt, ops, last, backendVars, resolveVars>>

\* the provider's stream holds a chunk without text (no text attribute, or an
\* empty one): generate_stream passes over it and yields nothing for it. A
\* provider stream is either the scripted fragments or chunks without text only.
StreamSkip(r) ==
  /\ reqs[r].kind = "stream" /\ reqs[r].pc = "streaming"
  /\ reqs[r].textless < MaxTextless /\ reqs[r].yielded = <<>>
  /\ reqs' = [reqs EXCEPT ![r].textless = @ + 1]
  /\ UNCHANGED <<clock, heap, conversations, system_prompt, ops, last, backendVars, resolveVars>>

\* (mutation) an end of stream that emits "done" and commits nothing
StreamEnd_NoCommit(r) ==
  /\ reqs[r].kind = "stream" /\ reqs[r].pc = "streaming"
  /\ reqs' = [reqs EXCEPT ![r].pc = "done", ![r].reply = reqs[r].full_response,
                          ![r].resp_id = heap[reqs[r].conv].id, ![r].commit_at = clock,
                          ![r].events = Append(@, [event |-> "done",
                                                   data |-> heap[reqs[r].conv].id])]
  /\ UNCHANGED <<clock, heap, conversations, system_prompt, ops, last, backendVars, resolveVars>>

\* the adapter's sequence is exhausted: commit, write back, emit "done"
StreamEnd(r) ==
  /\ reqs[r].kind = "stream" /\ reqs[r].pc = "streaming"
  /\ LET o  == reqs[r].conv
         c1 == CommitAssistant(heap[o], reqs[r].message, reqs[r].full_response, clock, r)
     IN /\ heap' = [heap EXCEPT ![o] = c1]
        /\ conversations' = DictSet(conversations, c1.id, o)
        /\ reqs' = [reqs EXCEPT ![r].pc = "done", ![r].reply = reqs[r].full_response,
                                ![r].resp_id = c1.id, ![r].commit_at = clock,
                                ![r].events = Append(@, [event |-> "done", data |-> c1.id])]
  /\ UNCHANGED <<clock, system_prompt, ops, last, backendVars, resolveVars>>

\* (mutation) a failure that takes back what was forwarded
StreamRaise_Retract(r) ==
  /\ reqs[r].kind = "stream" /\ reqs[r].pc = "streaming"
  /\ reqs' = [reqs EXCEPT ![r].pc = "failed", ![r].events = <<>>]
  /\ UNCHANGED <<clock, heap, conversations, system_prompt, ops, last, backendVars, resolveVars>>

\* the adapter's sequence raises: the generator ends with the exception
StreamRaise(r) ==
  /\ reqs[r].kind = "stream" /\ reqs[r].pc = "streaming"
  /\ reqs' = [reqs EXCEPT ![r].pc = "failed"]
  /\ UNCHANGED <<clock, heap, conversations, system_prompt, ops, last, backendVars, resolveVars>>

\* the caller goes away: the generator is closed at its yield, the code after
\* the loop does not run
StreamAbandon(r) ==
  /\ reqs[r].kind = "stream" /\ reqs[r].pc = "streaming"
  /\ reqs' = [reqs EXCEPT ![r].pc = "cancelled"]
  /\ UNCHANGED <<clock, heap, conversations, system_prompt, ops, last, backendVars, resolveVars>>

\* POST /conversations: the route fills in the default prompt, the service stores
CreateConversation(title, sp) ==
  /\ ops < MaxOps
  /\ ops' = ops + 1
  /\ \E t2 \in {clock, IF clock < MaxClock THEN clock + 1 ELSE clock} :
       LET sp1 == IF ~Truthy(sp) THEN get_system_prompt ELSE sp
           c0  == NewConversation(FreshId(heap), title, sp1, clock, t2)
       IN /\ heap' = Append(heap, c0)
          /\ conversations' = DictSet(conversations, c0.id, Len(heap) + 1)
          /\ clock' = t2
  /\ UNCHANGED <<system_prompt, reqs, last, backendVars, resolveVars>>

\* DELETE /conversations/{id}
DeleteConversation(id) ==
  /\ ops < MaxOps
  /\ ops' = ops + 1
  /\ conversations' = delete_conversation(conversations, id).conversations
  /\ last' = [op |-> "delete", seq |-> ops + 1, id |-> id,
              status |-> delete_conversation(conversations, id).status]
  /\ UNCHANGED <<clock, heap, system_prompt, reqs, backendVars, resolveVars>>

\* GET /conversations/{id}
GetConversation(id) ==
  /\ ops < MaxOps
  /\ ops' = ops + 1
  /\ last' = [op |-> "get", seq |-> ops + 1, id |-> id, status |-> get_conversation(conversations, id).status]
  /\ UNCHANGED <<clock, heap, conversations, system_prompt, reqs, backendVars, resolveVars>>

\* (mutation) a new process-wide prompt is written into every conversation too
SetSystemPrompt_Rewrite(p) ==
  /\ ops < MaxOps
  /\ ops' = ops + 1
  /\ system_prompt' = update_system_prompt(p)
  /\ heap' = [o \in DOMAIN heap |-> [heap[o] EXCEPT !.system_prompt = update_system_prompt(p)]]
  /\ last' = [op |-> "set_prompt", seq |-> ops + 1, status |-> 200, data |-> update_system_prompt(p)]
  /\ UNCHANGED <<clock, conversations, reqs, backendVars, resolveVars>>

\* POST /system-prompt
SetSystemPrompt(p) ==
  /\ ops < MaxOps
  /\ ops' = ops + 1
  /\ system_prompt' = update_system_prompt(p)
  /\ last' = [op |-> "set_prompt", seq |-> ops + 1, status |-> 200, data |-> update_system_prompt(p)]
  /\ UNCHANGED <<clock, heap, conversations, reqs, backendVars, resolveVars>>

\* GET /system-prompt
GetSystemPrompt ==
  /\ ops < MaxOps
  /\ ops' = ops + 1
  /\ last' = [op |-> "get_prompt", seq |-> ops + 1, status |-> 200, data |-> get_system_prompt]
  /\ UNCHANGED <<clock, heap, conversations, system_prompt, reqs, backendVars, resolveVars>>

\* time passes
Tick ==
  /\ clock < MaxClock
  /\ clock' = clock + 1
  /\ UNCHANGED <<heap, conversations, system_prompt, reqs, ops, last, backendVars, resolveVars>>

\* ------------------------------------------------------------- backend: ChatService
\* str(uuid): the dictionary keys are strings, the ids are UUIDs
StrOf(id) == <<"str", id>>

\* the character bound of the title send_message gives a new conversation
SendTitleLimit == 30

\* user_message[:30] + "..." if len(user_message) > 30 else user_message
SendTitle(msg) ==
  IF Len(msg) > SendTitleLimit THEN Prefix(msg, SendTitleLimit) \o Ellipsis ELSE msg

\* the adapter call ends with an exception instead of a text
Raises == <<"Raises">>

BMessage(role, content) == [role |-> role, content |-> content]

\* ChatService.create_conversation: a new object, and a "system" message in it
\* when the request has a system prompt
Bcreate_conversation(id, title, sp, model, t1, t2) ==
  LET c0 == [id |-> id, title |-> title, system_prompt |-> sp, model |-> model,
             messages |-> <<>>, created_at |-> t1, updated_at |-> t2]
  IN IF Truthy(sp)
     THEN [c0 EXCEPT !.messages = Append(@, BMessage("system", sp))]
     ELSE c0

\* the attributes hasattr(conversation, key) finds among the keys tried
ConversationAttrs ==
  {"id", "title", "messages", "system_prompt", "model", "created_at", "updated_at"}

\* for key, value in update_data.items(): if hasattr(conversation, key): setattr(...)
RECURSIVE ApplyPatch(_, _)
ApplyPatch(conv, patch) ==
  IF patch = <<>> THEN conv
  ELSE LET k == Head(patch)[1]
           v == Head(patch)[2]
       IN ApplyPatch(IF k \in ConversationAttrs THEN [conv EXCEPT ![k] = v] ELSE conv,
                     Tail(patch))

\* ChatService.update_conversation on a conversation that exists
Bupdate_conversation(conv, patch, now) ==
  [ApplyPatch(conv, patch) EXCEPT !.updated_at = now]

\* the parameters of LLMService.generate_response and the keywords send_message passes
GenerateParams   == {"model_id", "messages", "system_prompt"}
GenerateRequired == {"model_id", "messages"}
SendKeywords     == {"messages", "model"}
\* Python binds a call only if every keyword is a parameter and no required one is missing
CallBinds == SendKeywords \subseteq GenerateParams /\ GenerateRequired \subseteq SendKeywords

\* the update_data tried, as (key, value) pairs in order
Patches == {<<>>,
            <<(<<"title", <<"N">>>>)>>,
            <<(<<"system_prompt", <<"Q">>>>)>>,
            <<(<<"model", <<"g", "o", "o", "g", "l", "e", "-", "x">>>>)>>,
            <<(<<"messages", <<>>>>)>>,
            <<(<<"id", 0>>)>>,
            <<(<<"created_at", MaxClock + 1>>)>>,
            <<(<<"color", <<"r">>>>), (<<"title", <<"N">>>>)>>}

BModels  == {None, <<"g", "e", "m", "i", "n", "i", "-", "p", "r", "o">>,
             <<"g", "o", "o", "g", "l", "e", "-", "x">>}
BPrompts == {None, <<"S">>}

\* ChatService.create_conversation called with a CreateConversationRequest
Bcreate(title, sp, model) ==
  /\ ops < MaxOps
  /\ ops' = ops + 1
  /\ \E t2 \in {clock, IF clock < MaxClock THEN clock + 1 ELSE clock} :
       LET c0 == Bcreate_conversation(FreshId(Bheap), title, sp, model, clock, t2)
       IN /\ Bheap' = Append(Bheap, c0)
          /\ Bconversations' = DictSet(Bconversations, StrOf(c0.id), Len(Bheap) + 1)
          /\ clock' = t2
          /\ Blast' = [op |-> "create", status |-> 200]
  /\ UNCHANGED <<chatVars, resolveVars>>

\* (mutation) a selection that keeps the conversation's model whatever the request says
SelectModel_Bound(new, model, bound) == IF new THEN model ELSE bound

\* send_message: "if not model: model = conversation.model" for a stored
\* conversation, the request's model for a new one
SelectModel(new, model, bound) == IF ~new /\ ~Truthy(model) THEN bound ELSE model

\* what ends the call of generate_response: the call does not bind (TypeError),
\* no adapter is found (ValueError), the adapter fails, or nothing
SendError(use, reply) ==
  IF ~CallBinds THEN "TypeError"
  ELSE IF ResolveAdapter(adapters, use) = UnsupportedModel THEN "ValueError"
  ELSE IF reply = Raises THEN "AdapterError"
  ELSE "none"

\* ChatService.send_message
Bsend_message(cid, msg, model, sp) ==
  /\ ops < MaxOps
  /\ ops' = ops + 1
  /\ IF cid = NoId /\ ~Truthy(model)
     THEN /\ Blast' = [op |-> "send", status |-> 400, cid |-> cid, override |-> model]
          /\ UNCHANGED <<clock, Bheap, Bconversations>>
     ELSE IF cid /= NoId /\ ~DictHas(Bconversations, StrOf(cid))
     THEN /\ Blast' = [op |-> "send", status |-> 404, cid |-> cid, override |-> model]
          /\ UNCHANGED <<clock, Bheap, Bconversations>>
     ELSE \E t2 \in {clock, IF clock < MaxClock THEN clock + 1 ELSE clock},
             reply \in Replies \cup {Raises} :
       LET new  == cid = NoId
           o    == IF new THEN Len(Bheap) + 1 ELSE DictGet(Bconversations, StrOf(cid))
           c0   == IF new
                   THEN Bcreate_conversation(FreshId(Bheap), SendTitle(msg),
                                              IF Truthy(sp) THEN sp ELSE <<>>,
                                              model, clock, t2)
                   ELSE Bheap[o]
           use  == SelectModel(new, model, c0.model)
           c1   == [c0 EXCEPT !.messages = Append(@, BMessage("user", msg))]
           now  == IF new THEN t2 ELSE clock
           ok   == SendError(use, reply) = "none"
           c2   == IF ok
                   THEN [c1 EXCEPT !.messages = Append(@, BMessage("assistant", reply)),
                                   !.updated_at = now]
                   ELSE c1
           d1   == IF new THEN DictSet(Bconversations, StrOf(c0.id), o) ELSE Bconversations
       IN /\ Bheap' = IF new THEN Append(Bheap, c2) ELSE [Bheap EXCEPT ![o] = c2]
          /\ Bconversations' = IF ok THEN DictSet(d1, StrOf(IF new THEN c0.id ELSE cid), o)
                                     ELSE d1
          /\ clock' = now
          /\ Blast' = [op |-> "send", status |-> IF ok THEN 200 ELSE 500, model |-> use,
                       cid |-> cid, override |-> model, error |-> SendError(use, reply)]
  /\ UNCHANGED <<chatVars, resolveVars>>

\* ChatService.update_conversation, 404 for an id that is not stored
Bupdate(id, patch) ==
  /\ ops < MaxOps
  /\ ops' = ops + 1
  /\ IF ~DictHas(Bconversations, StrOf(id))
     THEN /\ Blast' = [op |-> "update", status |-> 404, id |-> id, patch |-> patch]
          /\ UNCHANGED <<Bheap, Bconversations>>
     ELSE LET o == DictGet(Bconversations, StrOf(id))
          IN /\ Bheap' = [Bheap EXCEPT ![o] = Bupdate_conversation(@, patch, clock)]
             /\ Bconversations' = DictSet(Bconversations, StrOf(id), o)
             /\ Blast' = [op |-> "update", status |-> 200, id |-> id, patch |-> patch]
  /\ UNCHANGED <<clock, chatVars, resolveVars>>

\* ChatService.delete_conversation, 404 for an id that is not stored
Bdelete(id) ==
  /\ ops < MaxOps
  /\ ops' = ops + 1
  /\ IF ~DictHas(Bconversations, StrOf(id))
     THEN /\ Blast' = [op |-> "delete", status |-> 404]
          /\ UNCHANGED Bconversations
     ELSE /\ Bconversations' = DictDel(Bconversations, StrOf(id))
          /\ Blast' = [op |-> "delete", status |-> 204]
  /\ UNCHANGED <<clock, Bheap, chatVars, resolveVars>>

\* time passes
BTick ==
  /\ clock < MaxClock
  /\ clock' = clock + 1
  /\ UNCHANGED <<ops, chatVars, backendVars, resolveVars>>

BCreateInputs == {[title |-> <<"T">>, system_prompt |-> <<>>],
                  [title |-> <<"U">>, system_prompt |-> <<"S">>]}

NextBackend ==
  \/ \E in \in BCreateInputs, md \in BModels \ {None} :
       Bcreate(in.title, in.system_prompt, md)
  \/ \E cid \in {NoId} \cup ConvIds, m \in UserMsgs, md \in BModels, sp \in BPrompts :
       Bsend_message(cid, m, md, sp)
  \/ \E id \in ConvIds, patch \in Patches : Bupdate(id, patch)
  \/ \E id \in ConvIds : Bdelete(id)
  \/ BTick


Init ==
  /\ clock = 0
  /\ heap = <<>>
  /\ conversations = <<>>
  /\ system_prompt = None
  /\ reqs = <<>>
  /\ last = [op |-> "none", seq |-> 0, status |-> 0]
  /\ ops = 0
  /\ Bheap = <<>>
  /\ Bconversations = <<>>
  /\ Blast = [op |-> "none", status |-> 0]
  /\ adapters = Registry
  /\ model_id = <<>>
  /\ resolved = "pending"

Next ==
  \/ \E cid \in {NoId} \cup ConvIds, m \in UserMsgs : ChatBegin(cid, m)
  \/ \E r \in DOMAIN reqs, t \in Replies : ChatReturn(r, t)
  \/ \E r \in DOMAIN reqs : ChatRaise(r)
  \/ \E cid \in {NoId} \cup ConvIds, m \in UserMsgs : StreamBegin(cid, m)
  \/ \E r \in DOMAIN reqs : StreamChunk(r)
  \/ \E r \in DOMAIN reqs : StreamSkip(r)
  \/ \E r \in DOMAIN reqs : StreamEnd(r)
  \/ \E r \in DOMAIN reqs : StreamRaise(r)
  \/ \E r \in DOMAIN reqs : StreamAbandon(r)
  \/ \E in \in CreateInputs : CreateConversation(in.title, in.system_prompt)
  \/ \E id \in ConvIds : DeleteConversation(id)
  \/ \E id \in ConvIds : GetConversation(id)
  \/ GetSystemPrompt
  \/ \E p \in Prompts : SetSystemPrompt(p)
  \/ Tick

Spec == Init /\ [][Next]_vars

\* what the adapter and the event loop do for request r once it has started:
\* the awaited call returns or raises, the stream yields, ends or raises
AdapterStep(r) ==
  /\ r \in DOMAIN reqs
  /\ \/ \E t \in Replies : ChatReturn(r, t)
     \/ ChatRaise(r)
     \/ StreamChunk(r)
     \/ StreamSkip(r)
     \/ StreamEnd(r)
     \/ StreamRaise(r)

\* the chat requests alone, with deletes in between
NextLive ==
  \/ \E cid \in {NoId} \cup ConvIds, m \in UserMsgs : ChatBegin(cid, m)
  \/ \E cid \in {NoId} \cup ConvIds, m \in UserMsgs : StreamBegin(cid, m)
  \/ \E r \in 1..MaxReqs : AdapterStep(r)
  \/ \E r \in DOMAIN reqs : StreamAbandon(r)
  \/ \E id \in ConvIds : DeleteConversation(id)

\* the event loop runs every task that can run, and the adapter's call or
\* sequence is finite: it returns, yields, ends or raises
SpecLive == Init /\ [][NextLive]_vars /\ \A r \in 1..MaxReqs : WF_vars(AdapterStep(r))

SpecBackend == Init /\ [][NextBackend]_vars


\* ============================================================= claims
\* positions of the messages request r appended to its conversation
Tagged(r) ==
  {i \in DOMAIN heap[reqs[r].conv].messages : heap[reqs[r].conv].messages[i].req = r}

InFlight(r) == reqs[r].pc \in {"invoke", "streaming"}

\* request r left exactly one user message and then exactly one assistant message,
\* both after everything the conversation held when r started
Exchange(r) ==
  LET ms == heap[reqs[r].conv].messages
  IN /\ Cardinality(Tagged(r)) = 2
     /\ \E i, j \in Tagged(r) :
          /\ reqs[r].pre.len < i /\ i < j
          /\ ms[i].role = "user" /\ ms[i].content = reqs[r].message
          /\ ms[j].role = "assistant" /\ ms[j].content = reqs[r].reply

\* C1, as stated: every successful chat request (blocking or streaming) appends
\* exactly one user message and then exactly one assistant message, and leaves
\* updated_at strictly greater than it was before the request (compared on
\* requests that name an existing conversation, which has an updated_at before).
C1_StrictlyGreater ==
  \A r \in DOMAIN reqs :
    reqs[r].pc = "done" =>
      /\ Exchange(r)
      /\ reqs[r].cid /= NoId =>
           heap[reqs[r].conv].updated_at > reqs[r].pre.updated_at

\* C1, amended: every successful chat request appends exactly one user message
\* and then exactly one assistant message; updated_at is set to the clock reading
\* taken at the commit, so it is never smaller than before the request and is
\* strictly greater whenever the clock has advanced past the earlier value.
C1_UpdatedAtIsCommitTime ==
  \A r \in DOMAIN reqs :
    reqs[r].pc = "done" =>
      /\ Exchange(r)
      /\ heap[reqs[r].conv].updated_at >= reqs[r].commit_at
      /\ heap[reqs[r].conv].updated_at <= clock
      /\ reqs[r].commit_at >= reqs[r].pre.updated_at
      /\ heap[reqs[r].conv].updated_at >= reqs[r].pre.updated_at
      /\ reqs[r].commit_at > reqs[r].pre.updated_at =>
           heap[reqs[r].conv].updated_at > reqs[r].pre.updated_at

\* a blocking and a streaming request have both succeeded on a conversation that
\* existed before, one of them after the clock advanced
C1_Witness ==
  \E r, q \in DOMAIN reqs :
    /\ reqs[r].pc = "done" /\ reqs[r].kind = "chat" /\ reqs[r].cid /= NoId
    /\ reqs[q].pc = "done" /\ reqs[q].kind = "stream"
    /\ heap[reqs[r].conv].updated_at > reqs[r].pre.updated_at
    /\ Len(heap[reqs[r].conv].messages) = 4

\* C2: a chat request whose adapter call fails leaves exactly one user message
\* of its own and no assistant message in the conversation, and the caller gets
\* an error: status 500 and no reply (blocking), no "done" event (streaming).
C2_FailedKeepsUserOnly ==
  \A r \in DOMAIN reqs :
    reqs[r].pc = "failed" =>
      LET ms == heap[reqs[r].conv].messages
      IN /\ Cardinality(Tagged(r)) = 1
         /\ \A i \in Tagged(r) :
              /\ i > reqs[r].pre.len
              /\ ms[i].role = "user" /\ ms[i].content = reqs[r].message
         /\ reqs[r].reply = None /\ reqs[r].resp_id = NoId
         /\ reqs[r].kind = "chat" => reqs[r].status = 500
         /\ \A k \in DOMAIN reqs[r].events : reqs[r].events[k].event /= "done"

\* a blocking request and a streaming request (after a fragment) have both failed
C2_Witness ==
  \E r, q \in DOMAIN reqs :
    /\ reqs[r].pc = "failed" /\ reqs[r].kind = "chat"
    /\ reqs[q].pc = "failed" /\ reqs[q].kind = "stream"
    /\ NumContent(reqs[q].events) >= 1


\* C3, as stated: a conversation that stays in the store keeps every message it
\* holds, in place: its messages before a step are a prefix of its messages
\* after it, in both stores.
C3_MessagesOnlyGrow ==
  [][/\ \A k \in DictKeys(Bconversations) \cap DictKeys(Bconversations') :
          IsPrefixOf(Bheap[DictGet(Bconversations, k)].messages,
                     Bheap'[DictGet(Bconversations', k)].messages)
     /\ \A k \in DictKeys(conversations) \cap DictKeys(conversations') :
          IsPrefixOf(heap[DictGet(conversations, k)].messages,
                     heap'[DictGet(conversations', k)].messages)]_vars

\* id was given to a conversation, is not in the store, and no request that is
\* still running holds that conversation
Gone(id) ==
  /\ \E o \in DOMAIN heap : heap[o].id = id
  /\ ~DictHas(conversations, id)
  /\ \A r \in DOMAIN reqs :
       InFlight(r) => heap[reqs[r].conv].id /= id

ListedIds(d, h) ==
  UNION {{get_all_conversations(d, h, limit, offset)[i].id :
            i \in DOMAIN get_all_conversations(d, h, limit, offset)} :
         limit \in 1..(Len(d) + 1), offset \in 0..Len(d)}

\* C4: once a conversation is deleted with no request running on it, it stays
\* deleted whatever happens next: get answers 404 and no list result holds it.
C4_DeletedStaysGone ==
  [][\A id \in ConvIds :
       Gone(id) =>
         /\ Gone(id)'
         /\ get_conversation(conversations', id) = NotFound
         /\ id \notin ListedIds(conversations', heap')]_vars

\* a conversation made by a request that succeeded was deleted, and a later
\* request that named it was answered 404
C4_Witness ==
  \E r, q \in DOMAIN reqs :
    /\ r < q /\ reqs[r].pc = "done" /\ reqs[r].created
    /\ Gone(reqs[r].resp_id)
    /\ reqs[q].cid = reqs[r].resp_id /\ reqs[q].pc = "notfound"

RECURSIVE Join(_)
Join(fs) == IF fs = <<>> THEN <<>> ELSE Head(fs) \o Join(Tail(fs))

\* C5: when the adapter has yielded f1..fn and completed, the relay has emitted
\* n content events carrying f1..fn in order and then one done event, and the
\* assistant message committed is f1 + ... + fn.
C5_StreamRelaysFragments ==
  \A r \in DOMAIN reqs :
    (reqs[r].kind = "stream" /\ reqs[r].pc = "done") =>
      LET fs == reqs[r].yielded
          n  == Len(fs)
          ev == reqs[r].events
          ms == heap[reqs[r].conv].messages
      IN /\ Len(ev) = n + 1
         /\ \A k \in 1..n : ev[k] = [event |-> "message", data |-> fs[k]]
         /\ ev[n + 1] = [event |-> "done", data |-> heap[reqs[r].conv].id]
         /\ \E i \in Tagged(r) : ms[i].role = "assistant" /\ ms[i].content = Join(fs)
         /\ \A i \in Tagged(r) : ms[i].role = "assistant" => ms[i].content = Join(fs)

\* the adapter yielded "Hello", ", ", "world" and "Hello, world" was committed
C5_Witness ==
  \E r \in DOMAIN reqs :
    /\ reqs[r].kind = "stream" /\ reqs[r].pc = "done"
    /\ reqs[r].yielded = <<(<<"H", "e", "l", "l", "o">>), (<<",", " ">>),
                           (<<"w", "o", "r", "l", "d">>)>>
    /\ \E i \in Tagged(r) :
         heap[reqs[r].conv].messages[i].content =
           <<"H", "e", "l", "l", "o", ",", " ", "w", "o", "r", "l", "d">>

\* the title the claim gives for a first user message
ExpectedTitle(m) ==
  IF Len(m) <= TitleLimit THEN m
  ELSE [i \in 1..(TitleLimit + 3) |-> IF i <= TitleLimit THEN m[i] ELSE "."]

\* a step in which request r commits
Commits(r) == reqs[r].pc /= "done" /\ reqs'[r].pc = "done"

\* C6: a commit on a conversation without a title that then holds exactly two
\* messages sets the title to the user message, cut to 30 characters plus "..."
\* when it is longer; any other commit leaves the title as it was.
C6_TitleDerivation ==
  [][\A r \in DOMAIN reqs :
       Commits(r) =>
         LET o == reqs[r].conv
         IN IF ~Truthy(heap[o].title) /\ Len(heap'[o].messages) = 2
            THEN heap'[o].title = ExpectedTitle(reqs[r].message)
            ELSE heap'[o].title = heap[o].title]_vars

\* one conversation got a cut title, another its 30-character message verbatim
C6_Witness ==
  \E o, p \in DOMAIN heap :
    /\ Len(heap[o].messages) = 2 /\ Len(heap[o].messages[1].content) = TitleLimit + 1
    /\ heap[o].title = Str("b", TitleLimit) \o <<".", ".", ".">>
    /\ Len(heap[p].messages) = 2 /\ heap[p].title = Str("a", TitleLimit)

Min(a, b) == IF a < b THEN a ELSE b
Max(a, b) == IF a > b THEN a ELSE b

\* C7: list(limit, offset) is the slice [offset, offset + limit) of the stored
\* conversations in descending order of updated_at; it has
\* min(limit, max(0, n - offset)) entries, none beyond the end.
C7_ListIsSortedSlice ==
  LET n    == Len(conversations)
      full == get_all_conversations(conversations, heap, n + 1, 0)
  IN /\ Len(full) = n
     /\ {full[i].id : i \in 1..Len(full)} = DictKeys(conversations)
     /\ \A i \in 1..(Len(full) - 1) : full[i].updated_at >= full[i + 1].updated_at
     /\ \A i \in 1..Len(full) :
          LET c == heap[DictGet(conversations, full[i].id)]
          IN /\ full[i].updated_at = c.updated_at /\ full[i].title = c.title
             /\ full[i].message_count = Len(c.messages)
     /\ \A limit \in 1..(n + 1), offset \in 0..(n + 1) :
          LET res == get_all_conversations(conversations, heap, limit, offset)
              m   == Min(limit, Max(0, n - offset))
          IN /\ Len(res) = m
             /\ \A i \in 1..m : res[i] = full[offset + i]

\* three conversations, stored in an order that is not the listing order, and
\* list(2, 0) has two entries
C7_Witness ==
  /\ Len(conversations) >= 3
  /\ \E i, j \in DOMAIN conversations :
       i < j /\ heap[conversations[i].obj].updated_at < heap[conversations[j].obj].updated_at
  /\ Len(get_all_conversations(conversations, heap, 2, 0)) = 2
  /\ get_all_conversations(conversations, heap, 1, Len(conversations)) = <<>>

\* t is the leading token of id: the characters before the first "-"
IsLeadingToken(t, id) ==
  /\ IsPrefixOf(t, id)
  /\ \A i \in DOMAIN t : t[i] /= "-"
  /\ Len(t) = Len(id) \/ id[Len(t) + 1] = "-"

\* C8: a call resolves to the adapter registered under the model id's leading
\* token, and fails as unsupported when that token is no registered key.
C8_ResolveByLeadingToken ==
  resolved /= "pending" =>
    \A k \in 0..Len(model_id) :
      LET t == SubSeq(model_id, 1, k)
      IN IsLeadingToken(t, model_id) =>
           IF t \in DOMAIN adapters
           THEN resolved = adapters[t]
           ELSE resolved = UnsupportedModel

\* "acme-large-v2" resolved against a registry that holds only "acme"
C8_Witness ==
  /\ DOMAIN adapters = {<<"a", "c", "m", "e">>}
  /\ model_id = <<"a", "c", "m", "e", "-", "l", "a", "r", "g", "e", "-", "v", "2">>
  /\ resolved = "AcmeAdapter"

AllIds(h) == {h[o].id : o \in DOMAIN h}

Stripped(ms) == [i \in DOMAIN ms |-> [role |-> ms[i].role, content |-> ms[i].content]]

\* C9: a request without a conversation id makes exactly one new conversation
\* and, when it succeeds, returns that conversation's id; a request with the id
\* of a stored conversation makes none, works on that conversation only, is
\* given the messages already there as its history, and returns the same id.
C9_NewOrSameConversation ==
  [][/\ Len(reqs') > Len(reqs) =>
          LET r == Len(reqs')
              o == reqs'[r].conv
          IN /\ IF reqs'[r].cid = NoId
                THEN /\ Len(heap') = Len(heap) + 1
                     /\ o = Len(heap')
                     /\ heap'[o].id \notin AllIds(heap)
                     /\ DictKeys(conversations') = DictKeys(conversations) \cup {heap'[o].id}
                     /\ reqs'[r].history = <<>>
                ELSE /\ Len(heap') = Len(heap)
                     /\ DictKeys(conversations') = DictKeys(conversations)
                     /\ o /= 0 =>
                          /\ heap'[o].id = reqs'[r].cid
                          /\ reqs'[r].history = Stripped(heap[o].messages)
             /\ \A p \in DOMAIN heap : p /= o => heap'[p] = heap[p]
     /\ \A r \in DOMAIN reqs :
          reqs'[r] /= reqs[r] =>
            /\ Len(heap') = Len(heap)
            /\ \A p \in DOMAIN heap : p /= reqs[r].conv => heap'[p] = heap[p]
            /\ reqs'[r].pc = "done" =>
                 /\ reqs'[r].resp_id = heap'[reqs[r].conv].id
                 /\ reqs[r].cid /= NoId => reqs'[r].resp_id = reqs[r].cid
                 /\ reqs[r].kind = "stream" =>
                      reqs'[r].events[Len(reqs'[r].events)] =
                        [event |-> "done", data |-> reqs'[r].resp_id]]_vars

\* a request made a conversation and a follow-up with the returned id was given
\* the first exchange as its history
C9_Witness ==
  \E r, q \in DOMAIN reqs :
    /\ reqs[r].cid = NoId /\ reqs[r].pc = "done"
    /\ reqs[q].cid = reqs[r].resp_id /\ reqs[q].pc = "done" /\ reqs[q].conv = reqs[r].conv
    /\ reqs[q].history = <<[role |-> "user", content |-> reqs[r].message],
                           [role |-> "assistant", content |-> reqs[r].reply]>>
    /\ Len(heap) = 1

\* C10, as stated: create adds exactly one conversation under an identifier no
\* stored conversation has, with a title it was given, no messages, and both
\* timestamps read from the clock during the call; the others are unchanged.
C10_CreateAddsEmptyConversation ==
  [][/\ (Blast'.op = "create" /\ Len(Bheap') = Len(Bheap) + 1) =>
          LET c == Bheap'[Len(Bheap')]
          IN /\ StrOf(c.id) \notin DictKeys(Bconversations)
             /\ DictKeys(Bconversations') = DictKeys(Bconversations) \cup {StrOf(c.id)}
             /\ c.title \in {in.title : in \in BCreateInputs}
             /\ c.messages = <<>>
             /\ c.created_at \in clock..clock' /\ c.updated_at \in clock..clock'
             /\ \A o \in DOMAIN Bheap : Bheap'[o] = Bheap[o]
     /\ (Len(reqs') = Len(reqs) /\ Len(heap') = Len(heap) + 1) =>
          LET c == heap'[Len(heap')]
          IN /\ c.id \notin DictKeys(conversations)
             /\ DictKeys(conversations') = DictKeys(conversations) \cup {c.id}
             /\ c.title \in {in.title : in \in CreateInputs}
             /\ c.messages = <<>>
             /\ c.created_at \in clock..clock' /\ c.updated_at \in clock..clock'
             /\ \A o \in DOMAIN heap : heap'[o] = heap[o]]_vars


\* the step is the answer of the route named op
Answers(op) == ops' = ops + 1 /\ last'.seq = ops' /\ last'.op = op

\* C11: delete(id) and get(id) on an identifier that is not in the store answer
\* 404 and leave the store as it was: the same keys, the same objects, every
\* object unchanged.
C11_MissingIdNotFound ==
  [][\A op \in {"delete", "get"} :
       (Answers(op) /\ last'.id \notin DictKeys(conversations)) =>
         /\ last'.status = 404
         /\ conversations' = conversations
         /\ heap' = heap]_vars

\* a delete of an identifier that is not stored was answered 404 while the store
\* held a conversation with an exchange in it
C11_Witness ==
  /\ last.op = "delete" /\ last.status = 404
  /\ ~DictHas(conversations, last.id)
  /\ \E i \in DOMAIN conversations : Len(heap[conversations[i].obj].messages) = 2


\* C12, as stated: once a prompt p has been set, every read of the current
\* system prompt returns the prompt set last (system_prompt holds it, and is
\* None only before the first set).
C12_PromptRoundTrip ==
  [][(Answers("get_prompt") /\ system_prompt /= None) =>
       last'.data = system_prompt]_vars


\* the step starts chat request r
Starts(r) == Len(reqs) = r - 1 /\ Len(reqs') = r

\* C13, as stated: a chat request, blocking or streaming, that names a
\* conversation id not in the store is answered 404 and changes nothing: no
\* conversation is made, no message appended, the adapter is not called, and a
\* streaming request emits no event.
C13_UnknownIdIsNotFound ==
  [][\A r \in 1..MaxReqs :
       (Starts(r) /\ reqs'[r].cid /= NoId /\ ~DictHas(conversations, reqs'[r].cid)) =>
         /\ reqs'[r].status = 404
         /\ reqs'[r].pc = "notfound"
         /\ heap' = heap /\ conversations' = conversations
         /\ reqs'[r].events = <<>> /\ reqs'[r].yielded = <<>>
         /\ reqs'[r].reply = None]_vars

\* C13, the part that holds whatever the kind of the request: nothing is
\* changed, the adapter is not called and no event is emitted; the blocking
\* route answers 404.
C13_UnknownIdChangesNothing ==
  [][\A r \in 1..MaxReqs :
       (Starts(r) /\ reqs'[r].cid /= NoId /\ ~DictHas(conversations, reqs'[r].cid)) =>
         /\ reqs'[r].kind = "chat" => reqs'[r].status = 404
         /\ reqs'[r].pc = "notfound"
         /\ heap' = heap /\ conversations' = conversations
         /\ reqs'[r].events = <<>> /\ reqs'[r].yielded = <<>>
         /\ reqs'[r].reply = None]_vars


\* C14, as stated: when a request that retries a failed request (same
\* conversation, same message) succeeds, the two requests together have left
\* that user message in the conversation exactly once, and the assistant
\* message comes directly after it.
C14_RetryDoesNotDuplicate ==
  \A r \in DOMAIN reqs :
    (reqs[r].retry_of /= 0 /\ reqs[r].pc = "done") =>
      LET ms   == heap[reqs[r].conv].messages
          mine == Tagged(r) \cup Tagged(reqs[r].retry_of)
      IN /\ Cardinality({i \in mine : ms[i].role = "user"}) = 1
         /\ \E i \in mine :
              /\ ms[i].role = "user" /\ ms[i].content = reqs[r].message
              /\ i + 1 \in mine /\ ms[i + 1].role = "assistant"


\* the step is an answer of send_message
SendAnswers == ops' = ops + 1 /\ Blast'.op = "send"

\* the request of this send_message step cannot be routed: it names no
\* conversation and no model, or the model selected for it has no adapter
Unroutable ==
  \/ Blast'.status = 400
  \/ /\ Blast'.status \notin {400, 404}
     /\ ResolveAdapter(adapters, Blast'.model) = UnsupportedModel

\* C15, as stated: a request that cannot be routed to an adapter is answered
\* with an error and has changed nothing: no conversation was created and no
\* message appended.
C15_UnroutableChangesNothing ==
  [][(SendAnswers /\ Unroutable) =>
       /\ Blast'.status /= 200
       /\ Bheap' = Bheap
       /\ Bconversations' = Bconversations]_vars


\* C16: send_message selects the request's model when it gives one and the
\* conversation's bound model otherwise; a request for a new conversation
\* without a model is answered 400; and the model bound to a stored
\* conversation is the same after the request as before it.
C16_ModelSelection ==
  [][SendAnswers =>
       LET new == Blast'.cid = NoId
           given == Truthy(Blast'.override)
       IN /\ (Blast'.status = 400) <=> (new /\ ~given)
          /\ Blast'.status \notin {400, 404} =>
               IF new
               THEN /\ Blast'.model = Blast'.override
                    /\ Bheap'[Len(Bheap')].model = Blast'.override
               ELSE LET o == DictGet(Bconversations, StrOf(Blast'.cid))
                    IN /\ Blast'.model = (IF given THEN Blast'.override ELSE Bheap[o].model)
                       /\ Bheap'[o].model = Bheap[o].model]_vars

\* a request gave a model other than the one bound to its stored conversation:
\* that model was selected and the bound one is still bound
C16_Witness ==
  /\ Blast.op = "send" /\ Blast.status \notin {400, 404} /\ Blast.cid /= NoId
  /\ Truthy(Blast.override) /\ Blast.model = Blast.override
  /\ DictHas(Bconversations, StrOf(Blast.cid))
  /\ Bheap[DictGet(Bconversations, StrOf(Blast.cid))].model /= Blast.override


\* C17, as stated: a streaming request abandoned after k fragments forwards no
\* further fragment, and the concatenation of those k fragments is committed
\* to the conversation as the request's assistant message.
C17_CancelCommitsPartial ==
  \A r \in DOMAIN reqs :
    reqs[r].pc = "cancelled" =>
      LET ms == heap[reqs[r].conv].messages
      IN /\ Len(reqs[r].events) = Len(reqs[r].yielded)
         /\ \E i \in Tagged(r) :
              ms[i].role = "assistant" /\ ms[i].content = Join(reqs[r].yielded)

\* C17, the part that holds: after the caller has gone no fragment is
\* forwarded, no done event is emitted, and the request's events are the
\* fragments forwarded before.
C17_CancelStopsForwarding ==
  [][\A r \in DOMAIN reqs :
       reqs[r].pc = "cancelled" =>
         /\ reqs'[r] = reqs[r]
         /\ \A k \in DOMAIN reqs[r].events :
              reqs[r].events[k] = [event |-> "message", data |-> reqs[r].yielded[k]]]_vars


\* C18, as stated: in every conversation, a request's user message comes after
\* every message that was there when the request started, and a successful
\* request's assistant message is the message directly after its own user
\* message.
C18_ExchangeIsContiguous ==
  \A r \in DOMAIN reqs :
    reqs[r].conv /= 0 =>
      LET ms == heap[reqs[r].conv].messages
      IN /\ \A i \in Tagged(r) : i > reqs[r].pre.len
         /\ reqs[r].pc = "done" =>
              \E i \in Tagged(r) :
                /\ ms[i].role = "user"
                /\ i + 1 \in Tagged(r) /\ ms[i + 1].role = "assistant"

\* C18, the part that holds under every interleaving: a request's messages
\* come after everything the conversation held when it started, and its
\* assistant message comes after its user message.
C18_ExchangeIsOrdered ==
  \A r \in DOMAIN reqs :
    reqs[r].conv /= 0 =>
      LET ms == heap[reqs[r].conv].messages
      IN /\ \A i \in Tagged(r) : i > reqs[r].pre.len
         /\ \A i, j \in Tagged(r) :
              (ms[i].role = "user" /\ ms[j].role = "assistant") => i < j


\* C19, as stated: when a request commits on a conversation whose id is no
\* longer in the store (it was deleted while the request was suspended at the
\* adapter call), the id is still absent after the commit.
C19_CommitAfterDeleteStaysDeleted ==
  [][\A r \in DOMAIN reqs :
       (Commits(r) /\ ~DictHas(conversations, heap[reqs[r].conv].id)) =>
         ~DictHas(conversations', heap[reqs[r].conv].id)]_vars


\* C20: when two chat requests on the same conversation have both succeeded,
\* the conversation holds the user message and the assistant message of each
\* of them, four messages that are all different entries, after everything it
\* held before either started; the store, if it has the id, has that object.
C20_NoLostUpdate ==
  \A r, q \in DOMAIN reqs :
    (r /= q /\ reqs[r].pc = "done" /\ reqs[q].pc = "done" /\ reqs[r].conv = reqs[q].conv) =>
      LET c     == heap[reqs[r].conv]
          first == IF reqs[r].pre.len <= reqs[q].pre.len THEN reqs[r].pre.len ELSE reqs[q].pre.len
      IN /\ Exchange(r) /\ Exchange(q)
         /\ Tagged(r) \cap Tagged(q) = {}
         /\ Cardinality(Tagged(r) \cup Tagged(q)) = 4
         /\ Len(c.messages) >= first + 4
         /\ DictHas(conversations, c.id) => DictGet(conversations, c.id) = reqs[r].conv

\* two requests ran on one conversation at the same time (both user messages
\* were appended before either assistant message) and both succeeded
C20_Witness ==
  \E r, q \in DOMAIN reqs :
    /\ r /= q /\ reqs[r].pc = "done" /\ reqs[q].pc = "done" /\ reqs[r].conv = reqs[q].conv
    /\ LET ms == heap[reqs[r].conv].messages
       IN /\ Len(ms) = 4
          /\ ms[1].role = "user" /\ ms[2].role = "user"
          /\ ms[3].role = "assistant" /\ ms[4].role = "assistant"
          /\ ms[3].req = q /\ ms[4].req = r
    /\ DictHas(conversations, heap[reqs[r].conv].id)


\* C21, as stated: no conversation, in either store, holds a message with role
\* "system": the system prompt lives in the system_prompt field only, and a
\* conversation created with a system prompt has no messages.
C21_NoSystemMessage ==
  /\ \A o \in DOMAIN heap :
       \A i \in DOMAIN heap[o].messages : heap[o].messages[i].role /= "system"
  /\ \A o \in DOMAIN Bheap :
       \A i \in DOMAIN Bheap[o].messages : Bheap[o].messages[i].role /= "system"

\* the keys update may change, and the value a patch gives a key (its last
\* pair with that key)
MutableKeys == {"title", "system_prompt", "model"}
PatchKeys(patch) == {patch[i][1] : i \in DOMAIN patch}
PatchValue(patch, k) ==
  patch[CHOOSE i \in DOMAIN patch :
          patch[i][1] = k /\ \A j \in DOMAIN patch : patch[j][1] = k => j <= i][2]

\* C22, as stated: an update that finds its conversation sets the mutable
\* fields the patch names to the patch's values, leaves every other field as
\* it was (id, messages and created_at whatever the patch holds), sets
\* updated_at to the current time, and touches no other conversation.
C22_UpdateOnlyMutableFields ==
  [][(ops' = ops + 1 /\ Blast'.op = "update" /\ Blast'.status = 200) =>
       LET o == DictGet(Bconversations, StrOf(Blast'.id))
           patch == Blast'.patch
       IN /\ \A k \in MutableKeys :
               Bheap'[o][k] = (IF k \in PatchKeys(patch) THEN PatchValue(patch, k)
                               ELSE Bheap[o][k])
          /\ Bheap'[o].id = Bheap[o].id
          /\ Bheap'[o].messages = Bheap[o].messages
          /\ Bheap'[o].created_at = Bheap[o].created_at
          /\ Bheap'[o].updated_at = clock'
          /\ \A p \in DOMAIN Bheap : p /= o => Bheap'[p] = Bheap[p]]_vars


\* the positions of the "done" events among evs
DonePositions(evs) == {k \in DOMAIN evs : evs[k].event = "done"}

\* C23: a streaming request emits "done" at most once, as its last event, with
\* the id of the conversation that holds its user message; and in the state in
\* which "done" is emitted the store holds that conversation with the
\* request's assistant message in it.
C23_DoneAfterCommit ==
  [][\A r \in DOMAIN reqs' :
       LET ev  == reqs'[r].events
           old == IF r \in DOMAIN reqs THEN reqs[r].events ELSE <<>>
       IN DonePositions(ev) /= {} =>
            LET c == heap'[reqs'[r].conv]
            IN /\ DonePositions(ev) = {Len(ev)}
               /\ ev[Len(ev)].data = c.id
               /\ \E i \in DOMAIN c.messages :
                    c.messages[i].req = r /\ c.messages[i].role = "user"
               /\ \E i \in DOMAIN c.messages :
                    /\ c.messages[i].req = r /\ c.messages[i].role = "assistant"
                    /\ c.messages[i].content = reqs'[r].full_response
               /\ DonePositions(old) = {} =>
                    /\ DictHas(conversations', c.id)
                    /\ DictGet(conversations', c.id) = reqs'[r].conv]_vars

\* a streaming request has emitted content events and then "done", and the
\* store holds its conversation with the committed text
C23_Witness ==
  \E r \in DOMAIN reqs :
    /\ reqs[r].kind = "stream" /\ Len(reqs[r].events) >= 3
    /\ DonePositions(reqs[r].events) = {Len(reqs[r].events)}
    /\ DictHas(conversations, heap[reqs[r].conv].id)
    /\ \E i \in Tagged(r) : heap[reqs[r].conv].messages[i].role = "assistant"


\* C24: when the adapter's sequence fails after k fragments, the k content
\* events forwarded before are still the request's events, in order, and stay
\* so; there is no done event; the conversation holds the request's user
\* message and no assistant message of the request.
C24_StreamFailureKeepsDelivered ==
  [][\A r \in DOMAIN reqs :
       (reqs[r].kind = "stream" /\ reqs'[r].pc = "failed") =>
         LET ev == reqs'[r].events
             ms == heap'[reqs[r].conv].messages
         IN /\ ev = reqs[r].events
            /\ Len(ev) = Len(reqs'[r].yielded)
            /\ \A k \in DOMAIN ev :
                 ev[k] = [event |-> "message", data |-> reqs'[r].yielded[k]]
            /\ Cardinality({i \in DOMAIN ms : ms[i].req = r}) = 1
            /\ \A i \in DOMAIN ms :
                 ms[i].req = r => (ms[i].role = "user" /\ ms[i].content = reqs[r].message)
            /\ reqs'[r].reply = None]_vars

\* a stream failed after two fragments had been forwarded
C24_Witness ==
  \E r \in DOMAIN reqs :
    /\ reqs[r].kind = "stream" /\ reqs[r].pc = "failed"
    /\ Len(reqs[r].events) = 2 /\ reqs[r].events[2].data = <<",", " ">>
    /\ Cardinality(Tagged(r)) = 1


\* the requests before r on r's conversation
Earlier(r) == {q \in DOMAIN reqs : q < r /\ reqs[q].conv = reqs[r].conv}

\* C25: from the moment the adapter is invoked the request's user message is
\* in the conversation, directly after the messages that were there before;
\* the history given to the adapter is exactly those earlier messages, in
\* order, as role/content pairs, and the current message is given apart from
\* it. When r is the k-th request of a sequential run of successful requests
\* on a conversation made by the first of them, the history has 2(k-1)
\* entries, user and assistant in turn.
C25_HistoryIsWhatPrecedes ==
  \A r \in DOMAIN reqs :
    reqs[r].conv /= 0 =>
      LET ms == heap[reqs[r].conv].messages
          n  == reqs[r].pre.len
          h  == reqs[r].history
      IN /\ Len(ms) > n
         /\ ms[n + 1].req = r /\ ms[n + 1].role = "user"
         /\ ms[n + 1].content = reqs[r].message
         /\ Len(h) = n
         /\ \A i \in 1..n : h[i] = [role |-> ms[i].role, content |-> ms[i].content]
         /\ ( /\ \A q \in Earlier(r) : \E i \in 1..n : Tagged(q) = {i, i + 1}
              /\ \E q \in Earlier(r) \cup {r} : reqs[q].created
              /\ n = 2 * Cardinality(Earlier(r)) )
            => \A i \in 1..n : h[i].role = (IF i % 2 = 1 THEN "user" ELSE "assistant")

\* the second request of a sequential run was given the first exchange, user
\* then assistant, as its history
C25_Witness ==
  \E r \in DOMAIN reqs :
    /\ Cardinality(Earlier(r)) = 1 /\ reqs[r].pre.len = 2
    /\ Len(reqs[r].history) = 2
    /\ reqs[r].history[1].role = "user" /\ reqs[r].history[2].role = "assistant"
    /\ reqs[r].history[2].content = <<"o", "k">>
    /\ reqs[r].pc = "invoke"


\* the process default prompt in force: the prompt set last when it is not
\* empty, the configured default otherwise
InForce == IF system_prompt \in {None, <<>>} THEN DEFAULT_SYSTEM_PROMPT ELSE system_prompt

\* C26: the system prompt given to the adapter is the conversation's own
\* prompt when it has one and the default in force only when it has none; a
\* conversation made by a chat request gets the default in force at that
\* moment as its own prompt.
C26_PromptPassed ==
  [][\A r \in 1..MaxReqs :
       (Starts(r) /\ reqs'[r].conv /= 0) =>
         LET c == heap'[reqs'[r].conv]
         IN /\ reqs'[r].sys = (IF c.system_prompt \in {None, <<>>} THEN InForce
                               ELSE c.system_prompt)
            /\ reqs'[r].cid = NoId => c.system_prompt = InForce
            /\ reqs'[r].cid /= NoId =>
                 c.system_prompt = heap[reqs'[r].conv].system_prompt]_vars

\* a request on a stored conversation was given the conversation's own prompt
\* while another default was in force
C26_Witness ==
  \E r \in DOMAIN reqs :
    /\ reqs[r].cid /= NoId /\ reqs[r].conv /= 0
    /\ reqs[r].sys = heap[reqs[r].conv].system_prompt
    /\ reqs[r].sys /= InForce


\* C27: for every adapter call with a system prompt set, the input sent to the
\* provider starts with the system prompt as a synthesized first turn (also
\* when the history is empty) and holds every history entry, in order, before
\* the current message.
C27_ProviderGetsPromptAndHistory ==
  \A r \in DOMAIN reqs :
    (reqs[r].conv /= 0 /\ Truthy(reqs[r].sys)) =>
      LET sent == ProviderInput(reqs[r].message, reqs[r].history, reqs[r].sys)
          n    == Len(reqs[r].history)
      IN /\ Len(sent) = n + 2
         /\ sent[1].text = SystemPrefix \o reqs[r].sys
         /\ \A i \in 1..n : sent[i + 1].text = reqs[r].history[i].content
         /\ sent[n + 2].text = reqs[r].message


\* C28: a provider stream that holds only chunks without text is an adapter
\* failure: the streaming request ends failed and no assistant message with
\* empty content is committed for it.
C28_TextlessStreamFails ==
  \A r \in DOMAIN reqs :
    (/\ reqs[r].kind = "stream" /\ reqs[r].conv /= 0
     /\ reqs[r].textless >= 1 /\ reqs[r].yielded = <<>>
     /\ reqs[r].pc \notin {"streaming", "cancelled"}) =>
      /\ reqs[r].pc = "failed"
      /\ \A i \in DOMAIN heap[reqs[r].conv].messages :
           LET m == heap[reqs[r].conv].messages[i]
           IN ~(m.req = r /\ m.role = "assistant" /\ m.content = <<>>)


\* C29: a chat request calls the adapter once when its conversation is
\* resolved and never otherwise; after an adapter failure the request is
\* failed and stays as it is: no second call, no later outcome.
C29_AdapterCalledOnce ==
  [][\A r \in DOMAIN reqs' :
       /\ reqs'[r].invoked = (IF reqs'[r].pc = "notfound" THEN 0 ELSE 1)
       /\ (r \in DOMAIN reqs /\ InFlight(r) /\ ~InFlight(r)') =>
            reqs'[r].pc \in {"done", "failed", "cancelled"}
       /\ (r \in DOMAIN reqs /\ reqs[r].pc = "failed") => reqs'[r] = reqs[r]]_vars

\* a POST /chat and a POST /chat/stream whose adapter call failed, each after
\* one call, the stream after it had yielded
C29_Witness ==
  \E r, q \in DOMAIN reqs :
    /\ reqs[r].kind = "chat" /\ reqs[r].pc = "failed" /\ reqs[r].invoked = 1
    /\ reqs[q].kind = "stream" /\ reqs[q].pc = "failed" /\ reqs[q].invoked = 1
    /\ reqs[q].yielded /= <<>>


\* C30: every stored conversation has updated_at >= created_at, and the
\* created_at of a conversation that stays in the store never changes.
C30_CreatedAtFixed ==
  [][/\ \A k \in DictKeys(Bconversations') :
          LET c == Bheap'[DictGet(Bconversations', k)]
          IN c.updated_at >= c.created_at
     /\ \A k \in DictKeys(Bconversations) \cap DictKeys(Bconversations') :
          Bheap'[DictGet(Bconversations', k)].created_at
            = Bheap[DictGet(Bconversations, k)].created_at
     /\ \A k \in DictKeys(conversations') :
          LET c == heap'[DictGet(conversations', k)]
          IN c.updated_at >= c.created_at
     /\ \A k \in DictKeys(conversations) \cap DictKeys(conversations') :
          heap'[DictGet(conversations', k)].created_at
            = heap[DictGet(conversations, k)].created_at]_vars


\* request r is the only request that has used its conversation
Alone(r) == \A q \in DOMAIN reqs : q /= r => reqs[q].conv /= reqs[r].conv

\* C31: a POST /chat without conversation id whose adapter call fails leaves
\* the conversation it created in the store with its user message as the only
\* message, no title and the updated_at of its creation; the failing step
\* changes neither the store nor any conversation, and the 500 answer carries
\* no conversation id.
C31_FailedNewLeavesOrphan ==
  [][\A r \in DOMAIN reqs' :
       (reqs'[r].kind = "chat" /\ reqs'[r].cid = NoId /\ reqs'[r].pc = "failed") =>
         LET o == reqs'[r].conv
             c == heap'[o]
         IN /\ reqs'[r].created /\ reqs'[r].status = 500
            /\ reqs'[r].resp_id = NoId /\ reqs'[r].reply = None
            /\ (r \in DOMAIN reqs /\ reqs[r].pc = "invoke") =>
                 heap' = heap /\ conversations' = conversations
            /\ (Alone(r)' /\ DictHas(conversations', c.id)) =>
                 /\ DictGet(conversations', c.id) = o
                 /\ Len(c.messages) = 1
                 /\ c.messages[1].role = "user" /\ c.messages[1].content = reqs'[r].message
                 /\ c.title = None
                 /\ c.updated_at = reqs'[r].pre.updated_at]_vars

\* a POST /chat without id has failed and its conversation is in the store,
\* listed with the one message
C31_Witness ==
  \E r \in DOMAIN reqs :
    /\ reqs[r].kind = "chat" /\ reqs[r].cid = NoId /\ reqs[r].pc = "failed"
    /\ DictHas(conversations, heap[reqs[r].conv].id)
    /\ Len(heap[reqs[r].conv].messages) = 1
    /\ clock > heap[reqs[r].conv].updated_at


\* the first request on conversation object o (it found no message) has failed
FirstFailed(o) ==
  \E q \in DOMAIN reqs : reqs[q].conv = o /\ reqs[q].pre.len = 0 /\ reqs[q].pc = "failed"

\* C32: the title of a conversation changes only in a commit on an untitled
\* conversation that then holds exactly two messages; once the first request on
\* a conversation has failed at the adapter call, no later step, successful
\* commits included, changes its title.
C32_TitleOnlyAtTwoMessages ==
  [][\A o \in DOMAIN heap :
       /\ heap'[o].title /= heap[o].title =>
            /\ \E r \in DOMAIN reqs : reqs[r].conv = o /\ Commits(r)
            /\ ~Truthy(heap[o].title)
            /\ Len(heap'[o].messages) = 2
       /\ FirstFailed(o) => heap'[o].title = heap[o].title]_vars

\* the first request on a conversation failed, a later one succeeded, and the
\* conversation, three messages long, still has no title
C32_Witness ==
  \E r, q \in DOMAIN reqs :
    /\ r < q /\ reqs[r].conv = reqs[q].conv
    /\ reqs[r].pre.len = 0 /\ reqs[r].pc = "failed"
    /\ reqs[q].pc = "done"
    /\ Len(heap[reqs[q].conv].messages) = 3
    /\ heap[reqs[q].conv].title = None


\* a step of request r: it starts, or its record changes
Moves(r) == Starts(r) \/ (r \in DOMAIN reqs /\ reqs'[r] /= reqs[r])

\* C33: a step of a chat request on conversation c changes no other
\* conversation object and no other entry of the store; the start of a request
\* on a stored conversation changes c only by appending the user message, and
\* the step in which the request fails or is abandoned changes nothing at all,
\* so a failed request leaves title, system_prompt, updated_at and the earlier
\* messages of c as they were.
C33_RequestFrame ==
  [][\A r \in DOMAIN reqs' :
       Moves(r) =>
         LET o == reqs'[r].conv
         IN /\ \A p \in DOMAIN heap : p /= o => heap'[p] = heap[p]
            /\ (DOMAIN heap') \ (DOMAIN heap) \subseteq {o}
            /\ \A k \in DictKeys(conversations) \cup DictKeys(conversations') :
                 (o = 0 \/ k /= heap'[o].id) =>
                   /\ k \in DictKeys(conversations) \cap DictKeys(conversations')
                   /\ DictGet(conversations', k) = DictGet(conversations, k)
            /\ o = 0 => heap' = heap /\ conversations' = conversations
            /\ (Starts(r) /\ o \in DOMAIN heap) =>
                 /\ heap'[o] = [heap[o] EXCEPT !.messages =
                                  Append(@, Message("user", reqs'[r].message, r))]
                 /\ conversations' = conversations
            /\ (r \in DOMAIN reqs /\ InFlight(r) /\ reqs'[r].pc \in {"failed", "cancelled"}) =>
                 heap' = heap /\ conversations' = conversations]_vars

\* a request on a conversation stored before, with an older updated_at, has
\* failed while the store holds another conversation
C33_Witness ==
  \E r \in DOMAIN reqs :
    /\ reqs[r].cid /= NoId /\ reqs[r].conv /= 0 /\ reqs[r].pc = "failed"
    /\ Cardinality(DictKeys(conversations)) >= 2
    /\ reqs[r].pre.updated_at < clock
    /\ heap[reqs[r].conv].updated_at = reqs[r].pre.updated_at


\* C34: every key of a conversation store maps to a conversation whose id is
\* that key (as a string in the dictionary of src/backend), no two entries hold
\* the same id, and no step changes the id of a conversation that stays stored.
C34_KeyIsId ==
  [][/\ \A k \in DictKeys(conversations') :
          heap'[DictGet(conversations', k)].id = k
     /\ \A k \in DictKeys(Bconversations') :
          StrOf(Bheap'[DictGet(Bconversations', k)].id) = k
     /\ \A j, k \in DictKeys(Bconversations') :
          Bheap'[DictGet(Bconversations', j)].id = Bheap'[DictGet(Bconversations', k)].id
            => j = k
     /\ \A j, k \in DictKeys(conversations') :
          heap'[DictGet(conversations', j)].id = heap'[DictGet(conversations', k)].id
            => j = k
     /\ \A k \in DictKeys(Bconversations) \cap DictKeys(Bconversations') :
          Bheap'[DictGet(Bconversations', k)].id = Bheap[DictGet(Bconversations, k)].id
     /\ \A k \in DictKeys(conversations) \cap DictKeys(conversations') :
          heap'[DictGet(conversations', k)].id = heap[DictGet(conversations, k)].id]_vars


\* the messages with the given role among the first n of ms
CountRole(ms, role, n) == Cardinality({i \in 1..n : ms[i].role = role})

\* C35: in every conversation, stored or held by a running request, every
\* prefix of the messages holds at least as many user messages as assistant
\* messages.
C35_UsersLeadAssistants ==
  \A o \in DOMAIN heap :
    \A n \in 0..Len(heap[o].messages) :
      CountRole(heap[o].messages, "user", n) >= CountRole(heap[o].messages, "assistant", n)

\* two requests ran interleaved on one conversation and both committed: user,
\* user, assistant, assistant
C35_Witness ==
  \E o \in DOMAIN heap :
    /\ Len(heap[o].messages) = 4
    /\ heap[o].messages[2].role = "user" /\ heap[o].messages[3].role = "assistant"
    /\ heap[o].messages[3].req /= heap[o].messages[2].req


\* C36: setting the process-wide prompt changes no conversation: no step
\* changes the system_prompt a conversation was created with, and a request on
\* a stored conversation is given that stored prompt whatever the process-wide
\* prompt is by then; only a conversation created by the step takes the
\* process-wide prompt in force.
C36_PromptChangeLeavesConversations ==
  [][/\ \A o \in DOMAIN heap : heap'[o].system_prompt = heap[o].system_prompt
     /\ Answers("set_prompt") => heap' = heap /\ conversations' = conversations
     /\ \A r \in 1..MaxReqs :
          (Starts(r) /\ reqs'[r].conv /= 0) =>
            IF reqs'[r].conv \in DOMAIN heap
            THEN reqs'[r].sys = heap[reqs'[r].conv].system_prompt
            ELSE reqs'[r].sys = InForce /\ heap'[reqs'[r].conv].system_prompt = InForce]_vars

\* the second of three operations set the prompt "P"; the third is a request
\* on the conversation made by the first, and it was given the older prompt
C36_Witness ==
  /\ ops = 3 /\ last.op = "set_prompt" /\ last.seq = 2 /\ system_prompt = <<"P">>
  /\ \E r \in DOMAIN reqs :
       /\ reqs[r].cid /= NoId /\ reqs[r].conv /= 0
       /\ reqs[r].sys /= <<"P">>
       /\ reqs[r].sys = heap[reqs[r].conv].system_prompt


\* C37: with the adapters LLMService registers, a call of generate_response
\* with any model id of its catalog finds an adapter: it does not fail with the
\* unsupported-model error.
C37_CatalogResolves ==
  (/\ adapters = Registry
   /\ model_id \in {Catalog[i] : i \in DOMAIN Catalog}
   /\ resolved /= "pending") =>
    resolved /= UnsupportedModel


\* request r has ended: committed and answered (a stream with "done" as its
\* last event), failed, or given up by its consumer
Ended(r) ==
  /\ r \in DOMAIN reqs
  /\ \/ reqs[r].pc \in {"failed", "cancelled"}
     \/ /\ reqs[r].pc = "done"
        /\ \E i \in Tagged(r) : heap[reqs[r].conv].messages[i].role = "assistant"
        /\ reqs[r].kind = "stream" =>
             reqs[r].events[Len(reqs[r].events)].event = "done"

\* C38: every chat request that waits for its adapter ends: it commits the
\* assistant message (a stream then emits "done") or it fails; a stream ends
\* otherwise only when its consumer has stopped consuming.
C38_RequestsTerminate ==
  \A r \in 1..MaxReqs :
    (r \in DOMAIN reqs /\ reqs[r].pc \in {"invoke", "streaming"}) ~> Ended(r)

\* a stream that yielded every scripted fragment has committed, next to a
\* blocking request that failed
C38_Witness ==
  \E r, q \in DOMAIN reqs :
    /\ reqs[r].kind = "stream" /\ reqs[r].pc = "done" /\ Len(reqs[r].yielded) = MaxFrags
    /\ reqs[q].kind = "chat" /\ reqs[q].pc = "failed"

====
